---- MODULE Spec2Model ----
(***************************************************************************)
(* The TypeScript playground component (src/unnamed/part_011, <script      *)
(* setup> at lines 303-753): an editor buffer persisted to localStorage,   *)
(* a type check that fills typeErrors, and executeCode, which snapshots    *)
(* the diagnostics into runErrors, transpiles the text, patches the        *)
(* console methods and runs the result with new Function.                  *)
(*                                                                         *)
(* JavaScript is single threaded: every handler (mount, edit listener,     *)
(* timer callback, button click) runs to completion, so each is one        *)
(* action.  The handlers are operators from a state record to a result     *)
(* [s |-> state, exc |-> thrown value], so that a handler that calls       *)
(* another composes the way the code does and a throw cuts it short.       *)
(***************************************************************************)
EXTENDS Integers, Sequences, FiniteSets, TLC

(***************************************************************************)
(* Bounds of the model.                                                    *)
(***************************************************************************)
\* console methods left patched by at most MaxDepth nested wrappers
MaxDepth == 1
\* host / late-callback console calls are explored while logs is this short
MaxLogs == 1
\* delayed checks (setTimeout) pending at once
MaxTimers == 1
\* callbacks scheduled by user programs pending at once
MaxCallbacks == 1
\* tokens in a message handed to isRelevantError on its own
MaxMessageTokens == 3
\* arguments of a console call intercepted on its own
MaxArgs == 2

(***************************************************************************)
(* JavaScript values, as far as the playground distinguishes them.         *)
(***************************************************************************)
Str(x) == [t |-> "string", v |-> x]
Num(x) == [t |-> "number", v |-> x]
Obj(x) == [t |-> "object", v |-> x]
Err(x) == [t |-> "error", v |-> x]
Null == [t |-> "null", v |-> ""]
Undefined == [t |-> "undefined", v |-> ""]
\* "no exception": the completion of a call that returned normally
NoExc == [t |-> "none", v |-> ""]
\* localStorage.getItem of a key that was never written
NoItem == [t |-> "null", v |-> ""]

(***************************************************************************)
(* The source texts explored.  Each is a concrete program; what the        *)
(* TypeScript compiler and the browser do with it is tabulated below.      *)
(***************************************************************************)
defaultCode == "function greet(name: string) { console.log(`Hello, ${name}!`); } greet('Core-Typescript');"
EmptyText == ""
BadAssign == "let x: number = 'bad'; console.warn(x); setTimeout(() => console.log(document.title), 0);"
ThreeLogs == "console.log(1); console.log({a: 1}); console.log('x', 2);"
ThrowError == "console.error('e'); throw new Error('boom');"
ThrowNull == "console.log('n'); throw null;"
ThrowString == "throw 'oops';"
CheckerCrash == "/* a text on which ts.createProgram fails an internal assertion */"
TranspilerCrash == "/* a text on which ts.transpileModule throws */"
SeveralErrors == "let a: number = 'x';\nlet b: string = 1; /* and a construct the checker reports with a category other than Error */"

Texts ==
  {defaultCode, EmptyText, BadAssign, ThreeLogs, ThrowError, ThrowNull,
   ThrowString, CheckerCrash, TranspilerCrash}

\* the texts explored where the claim is about what a check does with the
\* checker's list
DiagnosedTexts == Texts \cup {SeveralErrors}

\* what the key tsPlaygroundCode may hold when the page is opened
StoredAtOpen == {NoItem, Str(EmptyText), Str(BadAssign)}

(***************************************************************************)
(* ts.Diagnostic, with messageText cut into tokens so that startsWith and  *)
(* includes are decided on the message and not assumed.  start = -1 stands *)
(* for undefined; line and character are what                              *)
(* file.getLineAndCharacterOfPosition(start) returns (zero based).         *)
(***************************************************************************)
Diag(file, start, length, line, character, chain, messageText, code, category) ==
  [file |-> file, start |-> start, length |-> length, line |-> line,
   character |-> character, chain |-> chain, messageText |-> messageText,
   code |-> code, category |-> category]

\* reported for every text: the hand-written lib.d.ts declares no Boolean
GlobalBoolean ==
  Diag(FALSE, -1, 0, 0, 0, FALSE,
       <<"Cannot find global type ", "'Boolean'", ".">>, 2318, "Error")

NotAssignable ==
  Diag(TRUE, 4, 1, 0, 4, FALSE,
       <<"Type ", "'string'", " is not assignable to type ", "'number'", ".">>,
       2322, "Error")

NoDocument ==
  Diag(TRUE, 70, 8, 0, 70, FALSE,
       <<"Cannot find name 'document'", ".">>, 2584, "Error")

\* a global diagnostic (no file, no start) that names none of the phrases
\* isRelevantError looks for
GlobalValue ==
  Diag(FALSE, -1, -1, 0, 0, FALSE,
       <<"Cannot find global value ", "'Promise'", ".">>, 2468, "Error")

\* ts.DiagnosticCategory is Warning, Error, Suggestion or Message: a diagnostic
\* the checker returns with a category other than Error, and without a length
Advisory ==
  Diag(TRUE, 12, -1, 0, 12, TRUE, <<"Unreachable code detected", ".">>,
       7027, "Warning")

SecondNotAssignable ==
  Diag(TRUE, 25, 1, 1, 4, FALSE,
       <<"Type ", "'number'", " is not assignable to type ", "'string'", ".">>,
       2322, "Error")

(***************************************************************************)
(* The TypeScript compiler and the browser, tabulated on Texts.            *)
(***************************************************************************)
\* ts.createProgram + program.emit + ts.getPreEmitDiagnostics on "file.ts"
Checker(code) ==
  [threw |-> code = CheckerCrash,
   diagnostics |->
     CASE code = BadAssign -> <<GlobalBoolean, NotAssignable, NoDocument>>
       [] code = SeveralErrors ->
            <<GlobalBoolean, GlobalValue, NotAssignable, Advisory,
              SecondNotAssignable>>
       [] OTHER -> <<GlobalBoolean>>]

\* ts.transpileModule(code, ...).outputText: the text with its types erased
transpileModule(code) ==
  [threw |-> code = TranspilerCrash,
   outputText |->
     CASE code = defaultCode ->
            "function greet(name) { console.log(`Hello, ${name}!`); } greet('Core-Typescript');"
       [] code = BadAssign ->
            "let x = 'bad'; console.warn(x); setTimeout(() => console.log(document.title), 0);"
       [] code = SeveralErrors -> "let a = 'x';\nlet b = 1;"
       [] OTHER -> code]

Call(method, args) == [method |-> method, args |-> args]

\* new Function(jsCode)(): the console calls the program makes, in order, the
\* callbacks it leaves scheduled, and the value it throws (NoExc: none)
Behaviour(jsCode) ==
  CASE jsCode = transpileModule(defaultCode).outputText ->
         [calls |-> <<Call("log", <<Str("Hello, Core-Typescript!")>>)>>,
          scheduled |-> 0, end |-> NoExc]
    [] jsCode = transpileModule(BadAssign).outputText ->
         [calls |-> <<Call("warn", <<Str("bad")>>)>>,
          scheduled |-> 1, end |-> NoExc]
    [] jsCode = ThreeLogs ->
         [calls |-> <<Call("log", <<Num("1")>>),
                      Call("log", <<Obj("{a: 1}")>>),
                      Call("log", <<Str("x"), Num("2")>>)>>,
          scheduled |-> 0, end |-> NoExc]
    [] jsCode = ThrowError ->
         [calls |-> <<Call("error", <<Str("e")>>)>>,
          scheduled |-> 0, end |-> Err("boom")]
    [] jsCode = ThrowNull ->
         [calls |-> <<Call("log", <<Str("n")>>)>>,
          scheduled |-> 0, end |-> Null]
    [] jsCode = ThrowString ->
         [calls |-> <<>>, scheduled |-> 0, end |-> Str("oops")]
    [] OTHER ->
         [calls |-> <<>>, scheduled |-> 0, end |-> NoExc]

(***************************************************************************)
(* isRelevantError (lines 347-365).                                        *)
(***************************************************************************)
startsWith(messageText, token) ==
  Len(messageText) > 0 /\ messageText[1] = token

includes(messageText, token) ==
  \E i \in 1..Len(messageText) : messageText[i] = token

isRelevantError(diagnostic) ==
  IF Len(diagnostic.messageText) = 0 THEN FALSE
  ELSE LET messageText == diagnostic.messageText IN
    IF startsWith(messageText, "Cannot find global type ") THEN FALSE
    ELSE IF includes(messageText, "Could not resolve") \/ includes(messageText, "not found")
      THEN FALSE
    ELSE IF \/ includes(messageText, "lib.d.ts")
            \/ includes(messageText, "lib-undefined")
            \/ includes(messageText, "node_modules")
            \/ includes(messageText, "Cannot find name 'console'")
            \/ includes(messageText, "Cannot find name 'document'")
            \/ includes(messageText, "Cannot find name 'window'")
      THEN FALSE
    ELSE TRUE

(***************************************************************************)
(* formatArgs (lines 547-560).                                             *)
(***************************************************************************)
\* String(arg)
String(arg) ==
  CASE arg.t = "string" -> arg.v
    [] arg.t = "number" -> arg.v
    [] arg.t = "null" -> "null"
    [] arg.t = "undefined" -> "undefined"
    [] arg.t = "error" -> "Error: " \o arg.v
    [] OTHER -> "[object Object]"

\* JSON.stringify(arg, null, 2); a cyclic object makes it throw
JSONStringify(arg) ==
  [threw |-> arg = Obj("cyclic"),
   text |-> CASE arg = Obj("{a: 1}") -> "{\n  \"a\": 1\n}"
              [] arg = Obj("[1, 2]") -> "[\n  1,\n  2\n]"
              [] OTHER -> "{}"]

\* typeof arg === "object" && arg !== null
IsObject(arg) == arg.t \in {"object", "error"}

\* mutant: every argument is formatted with String, objects included
formatArgFlat(arg) == String(arg)

formatArg(arg) ==
  IF IsObject(arg)
  THEN IF JSONStringify(arg).threw THEN String(arg) ELSE JSONStringify(arg).text
  ELSE String(arg)

RECURSIVE join(_, _)
join(strings, sep) ==
  IF Len(strings) = 0 THEN ""
  ELSE IF Len(strings) = 1 THEN strings[1]
  ELSE strings[1] \o sep \o join(Tail(strings), sep)

formatArgs(args) ==
  join([i \in 1..Len(args) |-> formatArg(args[i])], " ")

(***************************************************************************)
(* State.                                                                  *)
(***************************************************************************)
VARIABLES
  mounted,      \* onMounted has run: monacoEditor and model are set
  tsCode,       \* tsCode.value
  code,         \* monacoEditor.getValue(), the SourceText
  store,        \* localStorage item "tsPlaygroundCode" (NoItem: absent)
  logs,         \* logs.value, entries [type, message]
  typeErrors,   \* typeErrors.value
  runErrors,    \* runErrors.value
  decorations,  \* number of editor decorations held in `decorations`
  console,      \* console.log/error/warn: how many playground wrappers are
                \* stacked on the browser's own function (0: the original)
  timers,       \* pending setTimeout(() => checkTypeErrors())
  callbacks,    \* pending callbacks scheduled by user programs
  storeFails,   \* environment: localStorage refuses writes in this session
                \* (quota exhausted, storage disabled), so setItem throws
  checkedCode,  \* history: the text of the most recent completed check
  executed,     \* history: the last executeCode reached new Function(jsCode)()
  lastOp,       \* history: the handler that ran last
  resetsInARow, \* history: resetCode calls (up to two) since the last handler
                \* other than resetCode and the delayed checks
  thrown,       \* history: what that handler threw to its caller (NoExc: nothing)
  editor,       \* MonacoEditor.vue: editor.value.getValue() (NoItem: editor is null)
  output,       \* MonacoEditor.vue: output.value, as the pieces assigned and appended
  errors,       \* MonacoEditor.vue: errors.value
  activeTab,    \* MonacoEditor.vue: activeTab.value
  windowConsole, \* MonacoEditor.vue: the object window.console refers to
  intercepted,  \* a console call made while the console is patched, on its own
  candidate,    \* a ts.Diagnostic handed to isRelevantError on its own
  relevant      \* what isRelevantError returned for it: "unset", "kept", "dropped"

vars ==
  <<mounted, tsCode, code, store, logs, typeErrors, runErrors, decorations,
    console, timers, callbacks, storeFails, checkedCode, executed, lastOp,
    resetsInARow, thrown, editor, output, errors, activeTab, windowConsole,
    intercepted, candidate, relevant>>

\* the variables of MonacoEditor.vue, and their values while it is not shown
docVars == <<editor, output, errors, activeTab, windowConsole>>

DocIdle ==
  /\ editor = NoItem
  /\ output = <<>>
  /\ errors = <<>>
  /\ activeTab = "output"
  /\ windowConsole = "window.console"

State ==
  [mounted |-> mounted, tsCode |-> tsCode, code |-> code, store |-> store,
   logs |-> logs, typeErrors |-> typeErrors, runErrors |-> runErrors,
   decorations |-> decorations, console |-> console, timers |-> timers,
   callbacks |-> callbacks, checkedCode |-> checkedCode, executed |-> executed]

Methods == {"log", "error", "warn"}

\* a handler's result: the state it leaves and what it threw
Return(s) == [s |-> s, exc |-> NoExc]
Throw(s, e) == [s |-> s, exc |-> e]

(***************************************************************************)
(* addLog, clearLogs, clearErrors, clearAll (lines 714-741).  The          *)
(* timestamp of an entry and the scroll timer of addLog are display only.  *)
(***************************************************************************)
addLog(s, type, message) ==
  [s EXCEPT !.logs = Append(@, [type |-> type, message |-> message])]

\* mutant: clearLogs leaves the entries in place
clearLogsKeeping(s) == s

clearLogs(s) == [s EXCEPT !.logs = <<>>]

clearErrors(s) ==
  [s EXCEPT !.runErrors = <<>>, !.typeErrors = <<>>,
            !.decorations = IF s.mounted THEN 0 ELSE @]

\* mutant: Clear All empties the log panel only
clearAllLogsOnly(s) == clearLogs(s)

clearAll(s) == clearErrors(clearLogs(s))

(***************************************************************************)
(* checkTypeErrors and updateDecorations (lines 562-660).                  *)
(***************************************************************************)
updateDecorations(s) ==
  IF ~s.mounted THEN s
  ELSE [s EXCEPT !.decorations = Len(s.typeErrors)]

\* mutant: the entry keeps the checker's zero-based line and character
toEntryZeroBased(diagnostic) ==
  IF diagnostic.file /\ diagnostic.start # -1
  THEN [line |-> diagnostic.line,
        character |-> diagnostic.character,
        messageText |-> diagnostic.messageText,
        start |-> diagnostic.start,
        length |-> IF diagnostic.length = -1 THEN 0 ELSE diagnostic.length,
        code |-> diagnostic.code]
  ELSE [line |-> 1, character |-> 1,
        messageText |-> diagnostic.messageText,
        start |-> 0, length |-> 0, code |-> diagnostic.code]

\* the entry typeErrors holds for one diagnostic (lines 609-635)
toEntry(diagnostic) ==
  IF diagnostic.file /\ diagnostic.start # -1
  THEN [line |-> diagnostic.line + 1,
        character |-> diagnostic.character + 1,
        messageText |-> diagnostic.messageText,
        start |-> diagnostic.start,
        length |-> IF diagnostic.length = -1 THEN 0 ELSE diagnostic.length,
        code |-> diagnostic.code]
  ELSE [line |-> 1, character |-> 1,
        messageText |-> diagnostic.messageText,
        start |-> 0, length |-> 0, code |-> diagnostic.code]

\* allDiagnostics.filter(isRelevantError).map(...) (lines 607-635)
relevantEntries(allDiagnostics) ==
  LET relevantDiagnostics == SelectSeq(allDiagnostics, isRelevantError)
  IN [i \in 1..Len(relevantDiagnostics) |-> toEntry(relevantDiagnostics[i])]

\* mutant: the check lists the entries last diagnostic first
checkTypeErrorsReordered(s) ==
  IF ~s.mounted THEN Return(s)
  ELSE LET program == Checker(s.code)
           entries == relevantEntries(program.diagnostics) IN
    IF program.threw THEN Throw(s, Err("Debug Failure."))
    ELSE Return(updateDecorations(
           [s EXCEPT !.typeErrors =
                       [i \in 1..Len(entries) |-> entries[Len(entries) + 1 - i]],
                     !.checkedCode = Str(s.code)]))

\* mutant: the check keeps every diagnostic, the filter is skipped
checkTypeErrorsUnfiltered(s) ==
  IF ~s.mounted THEN Return(s)
  ELSE LET program == Checker(s.code) IN
    IF program.threw THEN Throw(s, Err("Debug Failure."))
    ELSE Return(updateDecorations(
           [s EXCEPT !.typeErrors =
                       [i \in 1..Len(program.diagnostics) |-> toEntry(program.diagnostics[i])],
                     !.checkedCode = Str(s.code)]))

\* mutant: the check writes its result to the run snapshot as well
checkTypeErrorsSharing(s) ==
  IF ~s.mounted THEN Return(s)
  ELSE LET program == Checker(s.code) IN
    IF program.threw THEN Throw(s, Err("Debug Failure."))
    ELSE Return(updateDecorations(
           [s EXCEPT !.typeErrors = relevantEntries(program.diagnostics),
                     !.runErrors = relevantEntries(program.diagnostics),
                     !.checkedCode = Str(s.code)]))

\* mutant: the check reads the text held when the component was set up
\* (tsCode.value) instead of the editor's current text
checkTypeErrorsStale(s) ==
  IF ~s.mounted THEN Return(s)
  ELSE LET program == Checker(s.tsCode) IN
    IF program.threw THEN Throw(s, Err("Debug Failure."))
    ELSE Return(updateDecorations(
           [s EXCEPT !.typeErrors = relevantEntries(program.diagnostics),
                     !.checkedCode = Str(s.tsCode)]))

checkTypeErrors(s) ==
  IF ~s.mounted THEN Return(s)
  ELSE LET program == Checker(s.code) IN
    IF program.threw THEN Throw(s, Err("Debug Failure."))
    ELSE Return(updateDecorations(
           [s EXCEPT !.typeErrors = relevantEntries(program.diagnostics),
                     !.checkedCode = Str(s.code)]))

(***************************************************************************)
(* executeCode (lines 670-712).                                            *)
(***************************************************************************)
\* a call of console[method](...args) when `depth` wrappers are stacked: each
\* wrapper adds an entry and forwards to the function it replaced (691-702)
RECURSIVE callConsole(_, _, _, _)
callConsole(s, depth, method, args) ==
  IF depth = 0 THEN s
  ELSE callConsole(addLog(s, method, Str(formatArgs(args))), depth - 1, method, args)

RECURSIVE runCalls(_, _)
runCalls(s, calls) ==
  IF Len(calls) = 0 THEN s
  ELSE runCalls(
         callConsole(s, s.console[Head(calls).method], Head(calls).method, Head(calls).args),
         Tail(calls))

\* new Function(jsCode)() (line 704)
newFunction(s, jsCode) ==
  LET b == Behaviour(jsCode)
      after == [runCalls(s, b.calls) EXCEPT !.callbacks = @ + b.scheduled,
                                             !.executed = TRUE]
  IN IF b.end = NoExc THEN Return(after) ELSE Throw(after, b.end)

\* console.log = (...args) => {...} and its two siblings (lines 691-702)
patchConsole(s) ==
  [s EXCEPT !.console = [m \in Methods |-> s.console[m] + 1]]

\* catch (error: any) { addLog("error", error.message); } (lines 709-711):
\* reading .message of null or undefined throws a TypeError out of the handler
catchError(s, error) ==
  IF error.t \in {"null", "undefined"}
  THEN Throw(s, Err("Cannot read properties of " \o error.t \o " (reading 'message')"))
  ELSE Return(addLog(s, "error", IF error.t = "error" THEN Str(error.v) ELSE Undefined))

\* mutant: a run whose check failed empties the run snapshot
executeCodeForgetting(s) ==
  LET s1 == [clearLogs(s) EXCEPT !.executed = FALSE]
      checked == checkTypeErrors(s1)
  IN IF checked.exc # NoExc
     THEN catchError([checked.s EXCEPT !.runErrors = <<>>], checked.exc)
     ELSE
       LET s2 == [checked.s EXCEPT !.runErrors = checked.s.typeErrors]
           transpiled == transpileModule(s1.code)
       IN IF transpiled.threw THEN catchError(s2, Err("Debug Failure."))
          ELSE
            LET original == s2.console
                ran == newFunction(patchConsole(s2), transpiled.outputText)
            IN IF ran.exc # NoExc THEN catchError(ran.s, ran.exc)
               ELSE Return([ran.s EXCEPT !.console = original])

\* mutant: the run trusts the live list instead of forcing a check
executeCodeNoCheck(s) ==
  LET s1 == [clearLogs(s) EXCEPT !.executed = FALSE]
      s2 == [s1 EXCEPT !.runErrors = s1.typeErrors]
      transpiled == transpileModule(s1.code)
  IN IF transpiled.threw THEN catchError(s2, Err("Debug Failure."))
     ELSE
       LET original == s2.console
           ran == newFunction(patchConsole(s2), transpiled.outputText)
       IN IF ran.exc # NoExc THEN catchError(ran.s, ran.exc)
          ELSE Return([ran.s EXCEPT !.console = original])

\* mutant: the run persists the text it is about to execute
executeCodeSaving(s) ==
  LET s1 == [clearLogs(s) EXCEPT !.executed = FALSE, !.store = Str(s.code)]
      checked == checkTypeErrors(s1)
  IN IF checked.exc # NoExc THEN catchError(checked.s, checked.exc)
     ELSE
       LET s2 == [checked.s EXCEPT !.runErrors = checked.s.typeErrors]
           transpiled == transpileModule(s1.code)
       IN IF transpiled.threw THEN catchError(s2, Err("Debug Failure."))
          ELSE
            LET original == s2.console
                ran == newFunction(patchConsole(s2), transpiled.outputText)
            IN IF ran.exc # NoExc THEN catchError(ran.s, ran.exc)
               ELSE Return([ran.s EXCEPT !.console = original])

\* mutant: the run stops when the check it forced reported diagnostics
executeCodeBlocking(s) ==
  LET s1 == [clearLogs(s) EXCEPT !.executed = FALSE]
      checked == checkTypeErrors(s1)
  IN IF checked.exc # NoExc THEN catchError(checked.s, checked.exc)
     ELSE
       LET s2 == [checked.s EXCEPT !.runErrors = checked.s.typeErrors]
           transpiled == transpileModule(s1.code)
       IN IF Len(s2.runErrors) > 0 THEN Return(s2)
          ELSE IF transpiled.threw THEN catchError(s2, Err("Debug Failure."))
          ELSE
            LET original == s2.console
                ran == newFunction(patchConsole(s2), transpiled.outputText)
            IN IF ran.exc # NoExc THEN catchError(ran.s, ran.exc)
               ELSE Return([ran.s EXCEPT !.console = original])

executeCode(s) ==
  LET s1 == [clearLogs(s) EXCEPT !.executed = FALSE]
      checked == checkTypeErrors(s1)
  IN IF checked.exc # NoExc THEN catchError(checked.s, checked.exc)
     ELSE
       LET s2 == [checked.s EXCEPT !.runErrors = checked.s.typeErrors]
           transpiled == transpileModule(s1.code)
       IN IF transpiled.threw THEN catchError(s2, Err("Debug Failure."))
          ELSE
            LET original == s2.console
                ran == newFunction(patchConsole(s2), transpiled.outputText)
            IN IF ran.exc # NoExc THEN catchError(ran.s, ran.exc)
               ELSE Return([ran.s EXCEPT !.console = original])

(***************************************************************************)
(* The edit listener, resetCode and onMounted (lines 452-543, 743-752).    *)
(***************************************************************************)
\* localStorage.setItem("tsPlaygroundCode", value); `fails`: the store
\* refuses the write and setItem throws
setItem(s, value, fails) ==
  IF fails THEN Throw(s, Err("QuotaExceededError"))
  ELSE Return([s EXCEPT !.store = Str(value)])

\* mutant: the listener persists the text the editor was created with
onDidChangeModelContentStale(s, fails) ==
  LET saved == setItem(s, s.tsCode, fails)
  IN IF saved.exc # NoExc THEN saved ELSE checkTypeErrors(saved.s)

\* monacoEditor.onDidChangeModelContent(() => {...}) (lines 533-536)
onDidChangeModelContent(s, fails) ==
  LET saved == setItem(s, s.code, fails)
  IN IF saved.exc # NoExc THEN saved ELSE checkTypeErrors(saved.s)

\* monacoEditor.setValue(text): the editor replaces the text and fires the
\* content listener; the editor's emitter keeps a listener's exception from
\* reaching the caller of setValue
setValue(s, text, fails) ==
  onDidChangeModelContent([s EXCEPT !.code = text], fails).s

\* mutant: reset restores the text and forgets to clear the panels
resetCodeNoClear(s, fails) ==
  IF ~s.mounted THEN Return(s)
  ELSE LET s1 == setValue(s, defaultCode, fails)
           saved == setItem(s1, defaultCode, fails)
       IN IF saved.exc # NoExc THEN saved
          ELSE Return([saved.s EXCEPT !.timers = @ + 1])

\* mutant: reset reports itself in the log panel instead of emptying it
resetCodeLogging(s, fails) ==
  IF ~s.mounted THEN Return(s)
  ELSE LET s1 == setValue(s, defaultCode, fails)
           saved == setItem(s1, defaultCode, fails)
       IN IF saved.exc # NoExc THEN saved
          ELSE Return([clearErrors(addLog(saved.s, "log", Str("Code reset")))
                         EXCEPT !.timers = @ + 1])

resetCode(s, fails) ==
  IF ~s.mounted THEN Return(s)
  ELSE LET s1 == setValue(s, defaultCode, fails)
           saved == setItem(s1, defaultCode, fails)
       IN IF saved.exc # NoExc THEN saved
          ELSE Return([clearAll(saved.s) EXCEPT !.timers = @ + 1])

\* const storedCode = localStorage.getItem(...);
\* tsCode.value = storedCode ? storedCode : defaultCode (lines 509-510)
initialCode(storedCode) ==
  IF storedCode # NoItem /\ storedCode.v # "" THEN storedCode.v ELSE defaultCode

onMounted(s) ==
  LET text == initialCode(s.store)
  IN Return([s EXCEPT !.tsCode = text, !.code = text, !.mounted = TRUE,
                      !.timers = @ + 1])

(***************************************************************************)
(* Actions: one per handler the page can run.                              *)
(***************************************************************************)
Commit(r, op) ==
  /\ mounted' = r.s.mounted
  /\ tsCode' = r.s.tsCode
  /\ code' = r.s.code
  /\ store' = r.s.store
  /\ logs' = r.s.logs
  /\ typeErrors' = r.s.typeErrors
  /\ runErrors' = r.s.runErrors
  /\ decorations' = r.s.decorations
  /\ console' = r.s.console
  /\ timers' = r.s.timers
  /\ callbacks' = r.s.callbacks
  /\ checkedCode' = r.s.checkedCode
  /\ executed' = r.s.executed
  /\ lastOp' = op
  /\ resetsInARow' = CASE op = "reset" -> IF resetsInARow < 2 THEN resetsInARow + 1 ELSE 2
                        [] op = "timer" -> resetsInARow
                        [] OTHER -> 0
  /\ thrown' = r.exc
  /\ UNCHANGED <<storeFails, intercepted, candidate, relevant>>
  /\ UNCHANGED docVars

Init ==
  /\ mounted = FALSE
  /\ tsCode = defaultCode
  /\ code = defaultCode
  /\ store \in StoredAtOpen
  /\ logs = <<>>
  /\ typeErrors = <<>>
  /\ runErrors = <<>>
  /\ decorations = 0
  /\ console = [m \in Methods |-> 0]
  /\ timers = 0
  /\ callbacks = 0
  /\ storeFails \in BOOLEAN
  /\ checkedCode = NoItem
  /\ executed = FALSE
  /\ lastOp = "init"
  /\ resetsInARow = 0
  /\ thrown = NoExc
  /\ intercepted = Call("log", <<>>)
  /\ candidate = GlobalBoolean
  /\ relevant = "unset"
  /\ DocIdle

Mount ==
  /\ ~mounted
  /\ Commit(onMounted(State), "mount")

\* the user types: the text changes and the editor calls the listener
Edit ==
  /\ mounted
  /\ \E text \in Texts \ {code} :
       Commit(onDidChangeModelContent([State EXCEPT !.code = text], storeFails), "edit")

\* a delayed check scheduled by onMounted (500 ms) or resetCode (100 ms) fires
TimerCheck ==
  /\ mounted
  /\ timers > 0
  /\ Commit(checkTypeErrors([State EXCEPT !.timers = @ - 1]), "timer")

\* the Run button or Ctrl+Enter
Run ==
  /\ mounted
  /\ LET r == executeCode(State)
     IN /\ \A m \in Methods : r.s.console[m] <= MaxDepth
        /\ r.s.callbacks <= MaxCallbacks
        /\ Commit(r, "run")

\* the Reset button
Reset ==
  /\ mounted
  /\ LET r == resetCode(State, storeFails)
     IN /\ r.s.timers <= MaxTimers
        /\ Commit(r, "reset")

\* the Clear All Logs button
ClearAll ==
  /\ mounted
  /\ Commit(Return(clearAll(State)), "clear")

\* the page itself (or the editor library) calls a console method while no
\* handler of the playground is running
HostConsoleCall ==
  /\ mounted
  /\ \E m \in Methods :
       LET s == callConsole(State, console[m], m, <<Str("host")>>)
       IN /\ Len(s.logs) <= MaxLogs
          /\ Commit(Return(s), "console")

\* a callback a user program scheduled fires after its run returned
LateCallback ==
  /\ mounted
  /\ callbacks > 0
  /\ LET s == callConsole([State EXCEPT !.callbacks = @ - 1],
                          console["log"], "log", <<Str("Playground")>>)
     IN /\ Len(s.logs) <= MaxLogs
        /\ Commit(Return(s), "callback")

Next ==
  \/ Mount
  \/ Edit
  \/ TimerCheck
  \/ Run
  \/ Reset
  \/ ClearAll
  \/ HostConsoleCall
  \/ LateCallback

Spec == Init /\ [][Next]_vars

(***************************************************************************)
(* isRelevantError on its own: the filter applied to one diagnostic whose  *)
(* message is any short sequence of the phrases the filter looks for and   *)
(* of the pieces of an ordinary assignability error.                       *)
(***************************************************************************)
MessageTokens ==
  {"Cannot find global type ", "Could not resolve", "not found", "lib.d.ts",
   "lib-undefined", "node_modules", "Cannot find name 'console'",
   "Cannot find name 'document'", "Cannot find name 'window'",
   "Type '\"", "\"' is not assignable to type '\"ok\"'."}

Messages ==
  UNION {[1..n -> MessageTokens] : n \in 0..MaxMessageTokens}

FilterInit ==
  /\ mounted = FALSE
  /\ tsCode = defaultCode
  /\ code = defaultCode
  /\ store = NoItem
  /\ logs = <<>>
  /\ typeErrors = <<>>
  /\ runErrors = <<>>
  /\ decorations = 0
  /\ console = [m \in Methods |-> 0]
  /\ timers = 0
  /\ callbacks = 0
  /\ storeFails = FALSE
  /\ checkedCode = NoItem
  /\ executed = FALSE
  /\ lastOp = "init"
  /\ resetsInARow = 0
  /\ thrown = NoExc
  /\ DocIdle
  /\ intercepted = Call("log", <<>>)
  /\ \E messageText \in Messages :
       candidate = Diag(TRUE, 0, 1, 0, 0, FALSE, messageText, 2322, "Error")
  /\ relevant = "unset"

\* allDiagnostics.filter(isRelevantError) deciding one diagnostic (line 607)
Filter ==
  /\ relevant = "unset"
  /\ relevant' = IF isRelevantError(candidate) THEN "kept" ELSE "dropped"
  /\ UNCHANGED <<mounted, tsCode, code, store, logs, typeErrors, runErrors,
                 decorations, console, timers, callbacks, storeFails,
                 checkedCode, executed, lastOp, resetsInARow, thrown,
                 intercepted, candidate>>
  /\ UNCHANGED docVars

FilterNext == Filter

FilterSpec == FilterInit /\ [][FilterNext]_vars

(***************************************************************************)
(* The checks on their own: the mounted playground with the store          *)
(* accepting writes, where the user types any of DiagnosedTexts and runs.  *)
(***************************************************************************)
DiagnosticsInit ==
  /\ mounted = TRUE
  /\ tsCode = defaultCode
  /\ code = defaultCode
  /\ store = NoItem
  /\ logs = <<>>
  /\ typeErrors = <<>>
  /\ runErrors = <<>>
  /\ decorations = 0
  /\ console = [m \in Methods |-> 0]
  /\ timers = 1
  /\ callbacks = 0
  /\ storeFails = FALSE
  /\ checkedCode = NoItem
  /\ executed = FALSE
  /\ lastOp = "mount"
  /\ resetsInARow = 0
  /\ thrown = NoExc
  /\ DocIdle
  /\ intercepted = Call("log", <<>>)
  /\ candidate = GlobalBoolean
  /\ relevant = "unset"

\* the user types: the text changes and the editor calls the listener
Retype ==
  /\ mounted
  /\ \E text \in DiagnosedTexts \ {code} :
       Commit(onDidChangeModelContent([State EXCEPT !.code = text], storeFails), "edit")

DiagnosticsNext ==
  \/ Retype
  \/ TimerCheck
  \/ Run

DiagnosticsSpec == DiagnosticsInit /\ [][DiagnosticsNext]_vars

(***************************************************************************)
(* An intercepted console call on its own: while executeCode has the       *)
(* console patched (one wrapper per method), the user program calls one    *)
(* method with up to MaxArgs arguments.                                    *)
(***************************************************************************)
Values ==
  {Str("x"), Num("2"), Null, Undefined, Obj("{a: 1}"), Obj("[1, 2]"),
   Obj("cyclic"), Err("boom")}

Arguments == UNION {[1..n -> Values] : n \in 0..MaxArgs}

InterceptInit ==
  /\ mounted = TRUE
  /\ tsCode = defaultCode
  /\ code = defaultCode
  /\ store = NoItem
  /\ logs = <<>>
  /\ typeErrors = <<>>
  /\ runErrors = <<>>
  /\ decorations = 0
  /\ console = [m \in Methods |-> 1]
  /\ timers = 0
  /\ callbacks = 0
  /\ storeFails = FALSE
  /\ checkedCode = Str(defaultCode)
  /\ executed = FALSE
  /\ lastOp = "init"
  /\ resetsInARow = 0
  /\ thrown = NoExc
  /\ DocIdle
  /\ \E method \in Methods, args \in Arguments : intercepted = Call(method, args)
  /\ candidate = GlobalBoolean
  /\ relevant = "unset"

\* console.log / console.error / console.warn as replaced at lines 691-702
Intercept ==
  /\ lastOp = "init"
  /\ logs' = callConsole(State, console[intercepted.method], intercepted.method,
                         intercepted.args).logs
  /\ lastOp' = "intercept"
  /\ UNCHANGED <<mounted, tsCode, code, store, typeErrors, runErrors,
                 decorations, console, timers, callbacks, storeFails,
                 checkedCode, executed, resetsInARow, thrown,
                 intercepted, candidate, relevant>>
  /\ UNCHANGED docVars

InterceptNext == Intercept

InterceptSpec == InterceptInit /\ [][InterceptNext]_vars

(***************************************************************************)
(* docs/components/MonacoEditor.vue: the editor of the documentation       *)
(* pages.  output.value is kept as the sequence of the pieces assigned and *)
(* appended to it; the string shown is their concatenation.                *)
(***************************************************************************)
propsInitialCode == "function greet(name: string): string { return `Hello, ${name}!`; } const message = greet('World'); console.log(message);"
DocTypesOnly == "type A = number;"
DocSyntaxErrors == "let = 1;\nconst;"
DocMixed == "let = 1; /* and a construct reported with a category other than Error */"
DocAdvised == "console.info('i'); /* and a construct reported with a category other than Error */"
DocCrash == "/* a text on which ts.transpileModule throws */ "
DocThrowError == "console.log('a'); throw new Error('boom');"
DocThrowNull == "console.error('n'); throw null;"
DocThrowString == "throw 'oops';"
DocWarnObject == "console.warn({a: 1}, 'w');"
DocCyclic == "const o: any = {}; o.o = o; console.log(o);"

DocTexts ==
  {propsInitialCode, DocTypesOnly, DocSyntaxErrors, DocMixed, DocAdvised,
   DocCrash, DocThrowError, DocThrowNull, DocThrowString, DocWarnObject,
   DocCyclic}

VariableExpected ==
  Diag(TRUE, 4, 1, 0, 4, FALSE,
       <<"Variable declaration list cannot be empty", ".">>, 1123, "Error")

DeclarationExpected ==
  Diag(TRUE, 14, 1, 1, 5, FALSE,
       <<"Variable declaration list cannot be empty", ".">>, 1123, "Error")

DocAdvice ==
  Diag(TRUE, 10, 2, 0, 10, FALSE, <<"Unreachable code detected", ".">>,
       7027, "Suggestion")

\* ts.transpileModule(code, {..., reportDiagnostics: true}) (lines 103-110)
transpileReporting(source) ==
  [threw |-> source = DocCrash,
   outputText |->
     CASE source = propsInitialCode ->
            "function greet(name) { return `Hello, ${name}!`; } const message = greet('World'); console.log(message);"
       [] source = DocTypesOnly -> ""
       [] source = DocSyntaxErrors -> "let ;\nconst ;"
       [] source = DocMixed -> "let ;"
       [] source = DocAdvised -> "console.info('i');"
       [] source = DocCyclic -> "const o = {}; o.o = o; console.log(o);"
       [] OTHER -> source,
   diagnostics |->
     CASE source = DocSyntaxErrors -> <<VariableExpected, DeclarationExpected>>
       [] source = DocMixed -> <<DocAdvice, VariableExpected>>
       [] source = DocAdvised -> <<DocAdvice>>
       [] OTHER -> <<>>]

\* safeTranspileTS (lines 101-124)
safeTranspileTS(source) ==
  LET result == transpileReporting(source)
  IN IF result.threw
     THEN [outputText |-> "",
           diagnostics |->
             <<Diag(FALSE, -1, -1, 0, 0, FALSE,
                    <<"Transpilation error: ", "Debug Failure.">>, 9999, "Error")>>]
     ELSE [outputText |-> result.outputText, diagnostics |-> result.diagnostics]

\* new Function('"use strict";\n' + outputText)(): the console calls the
\* program makes, in order, and the value it throws (NoExc: none)
DocBehaviour(jsCode) ==
  CASE jsCode = transpileReporting(propsInitialCode).outputText ->
         [calls |-> <<Call("log", <<Str("Hello, World!")>>)>>, end |-> NoExc]
    [] jsCode = transpileReporting(DocAdvised).outputText ->
         [calls |-> <<Call("info", <<Str("i")>>)>>, end |-> NoExc]
    [] jsCode = DocThrowError ->
         [calls |-> <<Call("log", <<Str("a")>>)>>, end |-> Err("boom")]
    [] jsCode = DocThrowNull ->
         [calls |-> <<Call("error", <<Str("n")>>)>>, end |-> Null]
    [] jsCode = DocThrowString ->
         [calls |-> <<>>, end |-> Str("oops")]
    [] jsCode = DocWarnObject ->
         [calls |-> <<Call("warn", <<Obj("{a: 1}"), Str("w")>>)>>, end |-> NoExc]
    [] jsCode = transpileReporting(DocCyclic).outputText ->
         [calls |-> <<Call("log", <<Obj("cyclic")>>)>>, end |-> NoExc]
    [] OTHER -> [calls |-> <<>>, end |-> NoExc]

\* the reactive state of the component as the handlers see it
DocState ==
  [editor |-> editor, output |-> output, errors |-> errors,
   activeTab |-> activeTab, windowConsole |-> windowConsole,
   executed |-> executed]

\* the text customConsole puts before the arguments (lines 75-99); the emoji
\* are written as their source points
prefix(method) ==
  CASE method = "log" -> ""
    [] method = "error" -> "<U+1F6D1> "
    [] method = "warn" -> "<U+26A0 U+FE0F> "
    [] method = "info" -> "<U+2139 U+FE0F> "

\* typeof arg === 'object' ? JSON.stringify(arg, null, 2) : String(arg)
docFormat(arg) ==
  IF arg.t \in {"object", "error", "null"}
  THEN IF arg = Null THEN "null" ELSE JSONStringify(arg).text
  ELSE String(arg)

\* customConsole.log / error / warn / info (lines 75-99)
customConsole(s, method, args) ==
  IF \E i \in 1..Len(args) : JSONStringify(args[i]).threw
  THEN Throw(s, Err("Converting circular structure to JSON"))
  ELSE Return([s EXCEPT !.output =
                 Append(@, prefix(method)
                           \o join([i \in 1..Len(args) |-> docFormat(args[i])], " ")
                           \o "\n")])

RECURSIVE docRunCalls(_, _)
docRunCalls(s, calls) ==
  IF Len(calls) = 0 THEN Return(s)
  ELSE LET called == customConsole(s, Head(calls).method, Head(calls).args)
       IN IF called.exc # NoExc THEN called
          ELSE docRunCalls(called.s, Tail(calls))

\* new Function(functionBody)() with window.console replaced (lines 167-169)
docNewFunction(s, jsCode) ==
  LET b == DocBehaviour(jsCode)
      ran == docRunCalls([s EXCEPT !.executed = TRUE], b.calls)
  IN IF ran.exc # NoExc THEN ran
     ELSE [s |-> ran.s, exc |-> b.end]

\* catch (error: any) { output.value += `\n// Execution error: ${error.message}\n` }
\* (lines 170-171): reading .message of null or undefined throws a TypeError
docCatch(s, error) ==
  IF error.t \in {"null", "undefined"}
  THEN Throw(s, Err("Cannot read properties of " \o error.t \o " (reading 'message')"))
  ELSE Return([s EXCEPT !.output =
                 Append(@, "\n// Execution error: "
                           \o (IF error.t = "error" THEN error.v ELSE "undefined")
                           \o "\n")])

\* the errors.value entry of one diagnostic (lines 138-152)
docEntry(diagnostic) ==
  IF diagnostic.file /\ diagnostic.start # -1
  THEN [lineNumber |-> diagnostic.line + 1,
        column |-> diagnostic.character + 1,
        message |-> join(diagnostic.messageText, "")]
  ELSE [lineNumber |-> 1, column |-> 1,
        message |-> join(diagnostic.messageText, "")]

\* result.diagnostics.forEach(...) pushing the Error diagnostics (lines 136-154)
RECURSIVE pushErrors(_, _)
pushErrors(list, diagnostics) ==
  IF Len(diagnostics) = 0 THEN list
  ELSE pushErrors(
         IF Head(diagnostics).category = "Error"
         THEN Append(list, docEntry(Head(diagnostics))) ELSE list,
         Tail(diagnostics))

\* result.outputText?.trim()
trim(text) == IF text \in {"", " ", "\n", " \n"} THEN "" ELSE text

\* mutant: a run keeps the errors of the run before
transpileAndRunTSAccumulating(s, source) ==
  LET s0 == [s EXCEPT !.output = <<>>, !.executed = FALSE]
      result == safeTranspileTS(source)
      s1 == [s0 EXCEPT !.output = <<"// Starting execution...\n">>]
      hasErrors == \E i \in 1..Len(result.diagnostics) :
                     result.diagnostics[i].category = "Error"
  IN IF Len(result.diagnostics) > 0 /\ hasErrors
     THEN Return([s1 EXCEPT !.errors = pushErrors(s1.errors, result.diagnostics),
                            !.activeTab = "errors"])
     ELSE IF trim(result.outputText) = ""
     THEN Return([s1 EXCEPT !.output = Append(@, "// No source to execute.\n")])
     ELSE
       LET originalConsole == s1.windowConsole
           ran == docNewFunction([s1 EXCEPT !.windowConsole = "customConsole"],
                                 result.outputText)
           caught == IF ran.exc = NoExc THEN ran ELSE docCatch(ran.s, ran.exc)
       IN [s |-> [caught.s EXCEPT !.windowConsole = originalConsole],
           exc |-> caught.exc]

\* transpileAndRunTS (lines 126-175)
transpileAndRunTS(s, source) ==
  LET s0 == [s EXCEPT !.output = <<>>, !.errors = <<>>, !.executed = FALSE]
      result == safeTranspileTS(source)
      s1 == [s0 EXCEPT !.output = <<"// Starting execution...\n">>]
      hasErrors == \E i \in 1..Len(result.diagnostics) :
                     result.diagnostics[i].category = "Error"
  IN IF Len(result.diagnostics) > 0 /\ hasErrors
     THEN Return([s1 EXCEPT !.errors = pushErrors(s1.errors, result.diagnostics),
                            !.activeTab = "errors"])
     ELSE IF trim(result.outputText) = ""
     THEN Return([s1 EXCEPT !.output = Append(@, "// No source to execute.\n")])
     ELSE
       LET originalConsole == s1.windowConsole
           ran == docNewFunction([s1 EXCEPT !.windowConsole = "customConsole"],
                                 result.outputText)
           caught == IF ran.exc = NoExc THEN ran ELSE docCatch(ran.s, ran.exc)
       IN [s |-> [caught.s EXCEPT !.windowConsole = originalConsole],
           exc |-> caught.exc]

\* runCode (lines 177-181)
runCode(s) ==
  IF s.editor # NoItem THEN transpileAndRunTS(s, s.editor.v) ELSE Return(s)

DocCommit(r, op) ==
  /\ editor' = r.s.editor
  /\ output' = r.s.output
  /\ errors' = r.s.errors
  /\ activeTab' = r.s.activeTab
  /\ windowConsole' = r.s.windowConsole
  /\ executed' = r.s.executed
  /\ lastOp' = op
  /\ thrown' = r.exc
  /\ UNCHANGED <<mounted, tsCode, code, store, logs, typeErrors, runErrors,
                 decorations, console, timers, callbacks, storeFails,
                 checkedCode, resetsInARow, intercepted, candidate, relevant>>

DocInit ==
  /\ mounted = FALSE
  /\ tsCode = defaultCode
  /\ code = defaultCode
  /\ store = NoItem
  /\ logs = <<>>
  /\ typeErrors = <<>>
  /\ runErrors = <<>>
  /\ decorations = 0
  /\ console = [m \in Methods |-> 0]
  /\ timers = 0
  /\ callbacks = 0
  /\ storeFails = FALSE
  /\ checkedCode = NoItem
  /\ executed = FALSE
  /\ lastOp = "init"
  /\ resetsInARow = 0
  /\ thrown = NoExc
  /\ intercepted = Call("log", <<>>)
  /\ candidate = GlobalBoolean
  /\ relevant = "unset"
  /\ DocIdle

\* onMounted (lines 183-214): the editor is created with props.initialCode, or
\* monaco.editor.create throws and the failure is shown in the output
DocMount ==
  /\ lastOp = "init"
  /\ \/ DocCommit(Return([DocState EXCEPT
           !.editor = Str(propsInitialCode),
           !.output = <<"// Editor ready. Click \"Run\" to execute code.">>]),
         "mount")
     \/ DocCommit(Return([DocState EXCEPT
           !.output = <<"Editor init error: " \o "Element not found">>]),
         "mount")

\* the user types in the editor
DocType ==
  /\ editor # NoItem
  /\ \E text \in DocTexts \ {editor.v} :
       DocCommit(Return([DocState EXCEPT !.editor = Str(text)]), "edit")

\* the tab buttons (lines 11-24)
SelectTab ==
  /\ \E tab \in {"output", "errors"} \ {activeTab} :
       DocCommit(Return([DocState EXCEPT !.activeTab = tab]), "tab")

\* the Run button (line 26) or Ctrl+Enter (line 208)
RunCode ==
  /\ DocCommit(runCode(DocState), "run")

DocNext ==
  \/ DocMount
  \/ DocType
  \/ SelectTab
  \/ RunCode

DocSpec == DocInit /\ [][DocNext]_vars

(***************************************************************************)
(* Properties.                                                             *)
(***************************************************************************)
\* what a completed check of `text` puts in typeErrors
Expected(text) == relevantEntries(Checker(text).diagnostics)

\* the behaviour of the program the editor holds
Program == Behaviour(transpileModule(code).outputText)

RECURSIVE entriesOfCalls(_)
\* the number of entries the console calls of a run add, one per wrapper stacked
\* on the method called
entriesOfCalls(calls) ==
  IF Len(calls) = 0 THEN 0
  ELSE console[Head(calls).method] + entriesOfCalls(Tail(calls))

\* C1: after executeCode returns, console.log, console.error and console.warn
\* are the functions they were immediately before the call, on every exit path.
C1_ConsoleRestored ==
  [][lastOp' = "run" => console' = console]_vars

\* C2: a run of a program that calls console.log k times with distinct
\* arguments and nothing else leaves logs with exactly those k entries, in the
\* order of the calls, whatever happened before the run.
C2_LogsInCallOrder ==
  (/\ lastOp = "run"
   /\ executed
   /\ Program.end = NoExc
   /\ \A i \in 1..Len(Program.calls) : Program.calls[i].method = "log"
   /\ \A i, j \in 1..Len(Program.calls) :
        i # j => Program.calls[i].args # Program.calls[j].args)
  => logs = [i \in 1..Len(Program.calls) |->
               [type |-> "log", message |-> Str(formatArgs(Program.calls[i].args))]]

\* C3: whatever the user program throws, executeCode returns normally and the
\* failure is exactly one more entry, of kind error, after the entries of the
\* program's own console calls.
C3_RunNeverThrows ==
  lastOp = "run" =>
    /\ thrown = NoExc
    /\ (executed /\ Program.end # NoExc) =>
         /\ Len(logs) = entriesOfCalls(Program.calls) + 1
         /\ logs[Len(logs)].type = "error"

\* C4: while no executeCode call is in progress, a console call by the page or
\* by a callback a finished run left behind adds nothing to logs.
C4_NoCaptureOutsideRun ==
  [][lastOp' \in {"console", "callback"} => logs' = logs]_vars

\* C5: when the checker throws, checkTypeErrors does not propagate the failure
\* and typeErrors becomes exactly one synthetic diagnostic at line 1, column 1.
C5_CheckerFailureIsDiagnostic ==
  (/\ lastOp \in {"edit", "timer", "run"}
   /\ lastOp = "edit" => ~storeFails
   /\ Checker(code).threw)
  => /\ thrown = NoExc
     /\ Len(typeErrors) = 1
     /\ typeErrors[1].line = 1
     /\ typeErrors[1].character = 1

\* C6: when the store refuses the write, an edit is still followed by the
\* recheck of the new text, and reset still clears logs, runErrors and
\* typeErrors and schedules its recheck.
C6_StoreFailureIgnored ==
  /\ (lastOp = "edit" /\ ~Checker(code).threw) =>
       /\ checkedCode = Str(code)
       /\ typeErrors = Expected(code)
  /\ lastOp = "reset" =>
       /\ logs = <<>>
       /\ runErrors = <<>>
       /\ typeErrors = <<>>
       /\ timers > 0

C8_StoredTextIsInitialText ==
  lastOp = "mount" =>
    code = (IF store = NoItem THEN defaultCode ELSE store.v)

\* C9: when executeCode returns and the checker did not fail, runErrors is the
\* filtered checker result for the text the run started with.
C9_RunErrorsAreFresh ==
  (lastOp = "run" /\ ~Checker(code).threw) => runErrors = Expected(code)

\* C9 witness: a run in a session whose edits were never rechecked (the store
\* refuses writes, so the listener stops before its check) and whose mount
\* check is still pending, returned with the diagnostics of the text it ran.
C9_Witness ==
  /\ lastOp = "run"
  /\ storeFails
  /\ store = NoItem
  /\ timers = 1
  /\ code = BadAssign
  /\ Len(runErrors) = 1
  /\ runErrors[1].code = 2322

\* C10: runErrors changes only in a run, in Clear All or in Reset; edits, the
\* rechecks they trigger and delayed checks leave it as the run set it.
C10_RunErrorsFrozen ==
  [][runErrors' # runErrors => lastOp' \in {"run", "clear", "reset"}]_vars

\* C10 witness: after a run that reported an error, an edit or a delayed check
\* has rechecked another text (typeErrors is now empty) and runErrors still
\* holds the run's snapshot.
C10_Witness ==
  /\ lastOp \in {"edit", "timer"}
  /\ checkedCode = Str(code)
  /\ code # BadAssign
  /\ typeErrors = <<>>
  /\ runErrors = Expected(BadAssign)
  /\ runErrors # <<>>

\* C11: every value a check writes to typeErrors is computed from the text the
\* editor holds at the moment of the write, whichever of the edit listener, a
\* delayed check (mount, reset) or a run made the check; so a result for an
\* older text never replaces the result of a check of the newer text.
C11_ChecksReadCurrentText ==
  /\ []((/\ lastOp \in {"edit", "timer"}
         /\ thrown = NoExc)
        => (typeErrors = Expected(code) /\ checkedCode = Str(code)))
  /\ []((lastOp = "run" /\ ~Checker(code).threw)
        => (typeErrors = Expected(code) /\ checkedCode = Str(code)))
  /\ [][(typeErrors' # typeErrors /\ lastOp' \notin {"clear", "reset"})
        => typeErrors' = Expected(code')]_vars
  /\ [][(/\ checkedCode = Str(code)
         /\ typeErrors = Expected(code)
         /\ code' = code
         /\ lastOp' \in {"timer", "run"})
        => typeErrors' = typeErrors]_vars

\* C11 witness: the check scheduled at mount, when the editor held another
\* text, fired after edits that were not rechecked and wrote the diagnostics
\* of the text the editor holds now.
C11_Witness ==
  /\ lastOp = "timer"
  /\ storeFails
  /\ tsCode # BadAssign
  /\ code = BadAssign
  /\ typeErrors = Expected(BadAssign)
  /\ Len(typeErrors) = 1

\* C12: when the transpiler produces no output in a run (an empty string, or
\* it throws), nothing is executed, no error entry is added for it and the
\* console methods are as they were before the run.
C12_NoOutputIsNothingToRun ==
  [][(/\ lastOp' = "run"
      /\ ~Checker(code').threw
      /\ \/ transpileModule(code').threw
         \/ transpileModule(code').outputText = "")
     => (/\ logs' = <<>>
         /\ callbacks' = callbacks
         /\ console' = console)]_vars

\* C13: a run changes neither the text the editor holds nor the text persisted
\* under tsPlaygroundCode.
C13_RunKeepsText ==
  [][lastOp' = "run" => (code' = code /\ store' = store)]_vars

\* C13 witness: a run has executed a program, filled logs and runErrors and
\* left a callback pending, in a session where the persisted text (none) is
\* not the text the editor holds.
C13_Witness ==
  /\ lastOp = "run"
  /\ executed
  /\ code = BadAssign
  /\ store = NoItem
  /\ Len(logs) > 0
  /\ Len(runErrors) > 0
  /\ callbacks = 1

\* the entries of logs that one console call of the program accounts for
EntryOf(call) == [type |-> call.method, message |-> Str(formatArgs(call.args))]

\* C14: a run transpiles and executes the program whether or not the check it
\* forced reported diagnostics, and the program's console output is in logs.
C14_RunsDespiteDiagnostics ==
  (/\ lastOp = "run"
   /\ ~Checker(code).threw
   /\ ~transpileModule(code).threw)
  => /\ executed
     /\ \A i \in 1..Len(Program.calls) :
          \E j \in 1..Len(logs) : logs[j] = EntryOf(Program.calls[i])

\* C14 witness: a run whose forced check reported a type error executed the
\* program and captured its console.warn call.
C14_Witness ==
  /\ lastOp = "run"
  /\ code = BadAssign
  /\ Len(runErrors) = 1
  /\ Len(typeErrors) = 1
  /\ executed
  /\ \E j \in 1..Len(logs) : logs[j] = [type |-> "warn", message |-> Str("bad")]

\* C15: Clear All empties logs and runErrors and changes neither the text the
\* editor holds nor the persisted text.
C15_ClearAllFrame ==
  [][lastOp' = "clear"
     => (/\ logs' = <<>>
         /\ runErrors' = <<>>
         /\ code' = code
         /\ store' = store)]_vars

\* C15 witness: Clear All ran after a run of the text with a type error (its
\* callback is still pending), with that text in the editor and in the store.
C15_Witness ==
  /\ lastOp = "clear"
  /\ executed
  /\ callbacks = 1
  /\ code = BadAssign
  /\ store = Str(BadAssign)
  /\ logs = <<>>
  /\ runErrors = <<>>

\* C16: when resetCode returns, the editor holds the default program, the
\* persisted text is the default program, and logs, runErrors and typeErrors
\* are empty.
C16_ResetRestoresDefault ==
  (lastOp = "reset" /\ thrown = NoExc)
  => /\ code = defaultCode
     /\ store = Str(defaultCode)
     /\ logs = <<>>
     /\ runErrors = <<>>
     /\ typeErrors = <<>>

\* C16 witness: reset returned in a session where an earlier run had left the
\* console patched and a callback pending.
C16_Witness ==
  /\ lastOp = "reset"
  /\ thrown = NoExc
  /\ resetsInARow = 1
  /\ callbacks = 1
  /\ console["log"] = 1
  /\ code = defaultCode
  /\ store = Str(defaultCode)

ConsoleDuringRun ==
  [m \in Methods |-> IF Program.end = NoExc THEN console[m] + 1 ELSE console[m]]

\* the entries the last run itself appended, from an empty list: those of the
\* program's console calls, then the one of executeCode's catch block
EntriesOfRun ==
  IF Checker(code).threw \/ transpileModule(code).threw
  THEN <<[type |-> "error", message |-> Str("Debug Failure.")]>>
  ELSE runCalls([State EXCEPT !.logs = <<>>, !.console = ConsoleDuringRun],
                Program.calls).logs
       \o (CASE Program.end.t = "error" ->
                  <<[type |-> "error", message |-> Str(Program.end.v)]>>
             [] Program.end.t \in {"string", "number"} ->
                  <<[type |-> "error", message |-> Undefined]>>
             [] OTHER -> <<>>)

\* C18: when executeCode returns, logs holds exactly the entries appended
\* during that run and none from before it; after Clear All logs is empty.
C18_LogsOfOneRun ==
  /\ lastOp = "run" => logs = EntriesOfRun
  /\ lastOp = "clear" => logs = <<>>

\* C18 witness: a run of the three console.log calls returned with its three
\* entries, after an earlier run of another program (whose callback is still
\* pending) had put its own entry in logs.
C18_Witness ==
  /\ lastOp = "run"
  /\ code = ThreeLogs
  /\ callbacks = 1
  /\ console["log"] = 0
  /\ Len(logs) = 3
  /\ logs[1] = [type |-> "log", message |-> Str("1")]

\* the three rules of the filtering policy, read on the message: (a) it begins
\* with "Cannot find global type ", (b) it reports that a module could not be
\* resolved, (c) it names the library declaration file or reports console,
\* document or window as a name that cannot be found
SuppressedByPolicy(messageText) ==
  \/ startsWith(messageText, "Cannot find global type ")
  \/ includes(messageText, "Could not resolve")
  \/ includes(messageText, "lib.d.ts")
  \/ includes(messageText, "Cannot find name 'console'")
  \/ includes(messageText, "Cannot find name 'document'")
  \/ includes(messageText, "Cannot find name 'window'")

\* C19: isRelevantError drops a diagnostic with a non-empty message exactly
\* when one of the three rules applies; every other diagnostic is kept.
C19_FilterIsTheThreeRules ==
  (relevant # "unset" /\ Len(candidate.messageText) > 0)
  => (relevant = "dropped" <=> SuppressedByPolicy(candidate.messageText))

\* C20: with store writes succeeding, after every edit and every reset the text
\* persisted under tsPlaygroundCode is the editor's current text; a run, Clear
\* All and a check never write the store; so once an edit made them equal, the
\* persisted text and the current text stay equal in every later state.
C20_StoreFollowsText ==
  /\ [][(~storeFails /\ lastOp' \in {"edit", "reset"}) => store' = Str(code')]_vars
  /\ [][lastOp' \in {"run", "clear", "timer"} => store' = store]_vars
  /\ [][(~storeFails /\ store = Str(code)) => store' = Str(code')]_vars

C20_Witness ==
  /\ ~storeFails
  /\ lastOp = "run"
  /\ code = ThreeLogs
  /\ store = Str(ThreeLogs)
  /\ Len(logs) = 3

\* C21: after every edit whose store write completes, typeErrors is exactly the
\* filtered checker result for the new text, and no entry computed for the
\* previous text is still in typeErrors when the edit handler has run.
C21_EditReplacesTypeErrors ==
  [][(lastOp' = "edit" /\ ~storeFails)
     => /\ ~Checker(code').threw => typeErrors' = Expected(code')
        /\ \A i \in 1..Len(typeErrors) :
             (\E j \in 1..Len(typeErrors') : typeErrors'[j] = typeErrors[i])
             => (\E k \in 1..Len(Expected(code')) : Expected(code')[k] = typeErrors[i])]_vars

\* the entries a diagnostic of category Error of some text is mapped to
ErrorEntries ==
  UNION {{toEntry(Checker(text).diagnostics[i]) :
            i \in {j \in 1..Len(Checker(text).diagnostics) :
                     Checker(text).diagnostics[j].category = "Error"}} :
         text \in DiagnosedTexts}

\* C22: every entry of typeErrors and of runErrors comes from a checker
\* diagnostic of category Error; a diagnostic of another category that the
\* checker returned is in neither list.
C22_OnlyErrorCategory ==
  /\ \A i \in 1..Len(typeErrors) : typeErrors[i] \in ErrorEntries
  /\ \A i \in 1..Len(runErrors) : runErrors[i] \in ErrorEntries

\* the positions, in the checker's list for the current text, of the
\* diagnostics isRelevantError keeps
Kept ==
  {i \in 1..Len(Checker(code).diagnostics) :
     isRelevantError(Checker(code).diagnostics[i])}

\* C23: when a check has completed, typeErrors lists the diagnostics that pass
\* the filter, each once, in the order the checker produced them: the n-th
\* entry is the entry of the n-th kept diagnostic.
C23_CheckerOrderKept ==
  (\/ lastOp \in {"edit", "timer"} /\ thrown = NoExc
   \/ lastOp = "run" /\ ~Checker(code).threw)
  => /\ Len(typeErrors) = Cardinality(Kept)
     /\ \A n \in 1..Len(typeErrors) :
          \E i \in Kept :
            /\ Cardinality({j \in Kept : j < i}) = n - 1
            /\ typeErrors[n] = toEntry(Checker(code).diagnostics[i])

\* C23 witness: a check of a text with four kept diagnostics and a dropped one
\* listed them in the checker's order.
C23_Witness ==
  /\ lastOp = "edit"
  /\ thrown = NoExc
  /\ code = SeveralErrors
  /\ Len(typeErrors) = 4
  /\ typeErrors[2].start = 4
  /\ typeErrors[4].start = 25

\* the text the log panel is to show for one argument: String(arg) for a
\* primitive or null, JSON indented by two spaces for an object or array, and
\* String(arg) again when the object cannot be serialised
Shown(arg) ==
  CASE arg = Str("x") -> "x"
    [] arg = Num("2") -> "2"
    [] arg = Null -> "null"
    [] arg = Undefined -> "undefined"
    [] arg = Obj("{a: 1}") -> "{\n  \"a\": 1\n}"
    [] arg = Obj("[1, 2]") -> "[\n  1,\n  2\n]"
    [] arg = Obj("cyclic") -> "[object Object]"
    [] arg = Err("boom") -> "{}"

RECURSIVE SpaceJoined(_)
SpaceJoined(args) ==
  IF Len(args) = 0 THEN ""
  ELSE IF Len(args) = 1 THEN Shown(args[1])
  ELSE SpaceJoined(SubSeq(args, 1, Len(args) - 1)) \o " " \o Shown(args[Len(args)])

\* C24: a console call intercepted during a run appends one entry whose kind is
\* the method called and whose message is its arguments, each shown as above,
\* joined by single spaces; an argument JSON cannot serialise is shown with
\* String and nothing is thrown.
C24_InterceptedCallLogged ==
  lastOp = "intercept"
  => logs = <<[type |-> intercepted.method,
               message |-> Str(SpaceJoined(intercepted.args))]>>

\* C24 witness: console.warn(cyclic, {a: 1}) was intercepted.
C24_Witness ==
  /\ lastOp = "intercept"
  /\ intercepted = Call("warn", <<Obj("cyclic"), Obj("{a: 1}")>>)
  /\ logs = <<[type |-> "warn",
               message |-> Str("[object Object] {\n  \"a\": 1\n}")]>>

\* the n-th diagnostic of the current text that isRelevantError keeps
KeptDiagnostic(n) ==
  LET i == CHOOSE i \in Kept : Cardinality({j \in Kept : j < i}) = n - 1
  IN Checker(code).diagnostics[i]

Positioned(entry) ==
  /\ entry.line >= 1
  /\ entry.character >= 1
  /\ entry.start >= 0
  /\ entry.length >= 0

\* C25: every entry of typeErrors and runErrors has line >= 1, column >= 1,
\* start >= 0 and length >= 0; after a completed check, the entry of a diagnostic
\* with a file and a start offset is at the checker's line and character plus
\* one, and the entry of a diagnostic without is at line 1, column 1, start 0,
\* length 0.
C25_EntriesPositioned ==
  /\ \A n \in 1..Len(typeErrors) : Positioned(typeErrors[n])
  /\ \A n \in 1..Len(runErrors) : Positioned(runErrors[n])
  /\ (\/ lastOp \in {"edit", "timer"} /\ thrown = NoExc
      \/ lastOp = "run" /\ ~Checker(code).threw)
     => \A n \in 1..Len(typeErrors) :
          IF KeptDiagnostic(n).file /\ KeptDiagnostic(n).start # -1
          THEN /\ typeErrors[n].line = KeptDiagnostic(n).line + 1
               /\ typeErrors[n].character = KeptDiagnostic(n).character + 1
               /\ typeErrors[n].start = KeptDiagnostic(n).start
          ELSE /\ typeErrors[n].line = 1
               /\ typeErrors[n].character = 1
               /\ typeErrors[n].start = 0
               /\ typeErrors[n].length = 0

\* C25 witness: a run of the two-line text left in runErrors a global diagnostic
\* at 1:1 and the second line's error at line 2, column 5.
C25_Witness ==
  /\ lastOp = "run"
  /\ code = SeveralErrors
  /\ Len(runErrors) = 4
  /\ runErrors[1].line = 1 /\ runErrors[1].character = 1
  /\ runErrors[1].start = 0 /\ runErrors[1].length = 0
  /\ runErrors[3].length = 0
  /\ runErrors[4].line = 2 /\ runErrors[4].character = 5
  /\ runErrors[4].start = 25

\* C26: a run whose forced check throws executes nothing, keeps runErrors as
\* it was before the run, does not replace the console methods, and leaves in
\* logs exactly one entry, of kind error, with the checker's failure message.
C26_FailedCheckStopsRun ==
  [][(lastOp' = "run" /\ Checker(code).threw)
     => /\ ~executed'
        /\ callbacks' = callbacks
        /\ runErrors' = runErrors
        /\ console' = console
        /\ logs' = <<[type |-> "error", message |-> Str("Debug Failure.")]>>
        /\ thrown' = NoExc]_vars

\* C26 witness: after a run left a snapshot with an entry, the text was changed
\* to one the checker fails on and run again; the snapshot is still there.
C26_Witness ==
  /\ lastOp = "run"
  /\ code = CheckerCrash
  /\ ~executed
  /\ Len(runErrors) = 1
  /\ Len(logs) = 1
  /\ logs[1].type = "error"
  /\ \A m \in Methods : console[m] = 0

\* C27: in every state each runErrors entry's offset range lies inside the text
\* the editor holds (start + length <= length of the text), also after the
\* text was shortened following a run.
C27_RunErrorsInsideText ==
  \A n \in 1..Len(runErrors) :
    runErrors[n].start + runErrors[n].length <= Len(code)

\* the positions of the Error-category diagnostics in the transpile result of
\* the text the documentation editor holds
ErrorPositions ==
  {i \in 1..Len(safeTranspileTS(editor.v).diagnostics) :
     safeTranspileTS(editor.v).diagnostics[i].category = "Error"}

ErrorDiagnostic(n) ==
  LET i == CHOOSE i \in ErrorPositions :
             Cardinality({j \in ErrorPositions : j < i}) = n - 1
  IN safeTranspileTS(editor.v).diagnostics[i]

\* C28: transpileAndRunTS executes the transpiled code only when the result
\* has no Error-category diagnostic; when it has, nothing runs, errors holds one
\* entry per Error-category diagnostic (at line + 1 / character + 1, or at 1/1
\* without file or start) and the errors tab is selected; output and errors of
\* the run before are gone in either case.
C28_RunsOnlyWithoutErrors ==
  [][(lastOp' = "run" /\ editor # NoItem)
     => /\ executed' => ErrorPositions = {}
        /\ Len(errors') = Cardinality(ErrorPositions)
        /\ ErrorPositions # {}
           => /\ ~executed'
              /\ activeTab' = "errors"
              /\ output' = <<"// Starting execution...\n">>
              /\ \A n \in 1..Len(errors') :
                   IF ErrorDiagnostic(n).file /\ ErrorDiagnostic(n).start # -1
                   THEN /\ errors'[n].lineNumber = ErrorDiagnostic(n).line + 1
                        /\ errors'[n].column = ErrorDiagnostic(n).character + 1
                   ELSE /\ errors'[n].lineNumber = 1
                        /\ errors'[n].column = 1
        /\ Len(output') >= 1
        /\ output'[1] = "// Starting execution...\n"]_vars

\* C28 witness: a run of a text whose transpile result has a suggestion and one
\* error listed the error alone, at line 1, column 5, and ran nothing.
C28_Witness ==
  /\ lastOp = "run"
  /\ editor = Str(DocMixed)
  /\ ~executed
  /\ activeTab = "errors"
  /\ Len(errors) = 1
  /\ errors[1].lineNumber = 1
  /\ errors[1].column = 5

\* what the program the documentation editor holds throws (NoExc: nothing)
DocProgramEnd ==
  LET ran == docNewFunction(DocState, safeTranspileTS(editor.v).outputText)
  IN ran.exc

ExecutionErrorLines ==
  {"\n// Execution error: " \o m \o "\n" :
     m \in {"boom", "oops", "null", "undefined",
            "Converting circular structure to JSON",
            "Cannot read properties of null (reading 'message')"}}

\* C29: after transpileAndRunTS returns, window.console is the object it was
\* before the call, on every path; and what the user code throws does not
\* escape but becomes an 'Execution error' line at the end of output.
C29_ConsoleRestoredNoEscape ==
  [][(lastOp' = "run" /\ editor # NoItem)
     => /\ windowConsole' = windowConsole
        /\ thrown' = NoExc
        /\ (executed' /\ DocProgramEnd # NoExc)
           => output'[Len(output')] \in ExecutionErrorLines]_vars

====
